---- MODULE Spec2Model ----
(***************************************************************************)
(* Agent workflow adapter layer of vt-ai-assistant (src/agent_workflow.py). *)
(* One adapter instance is constructed from the process environment and    *)
(* then probed (health_check) or asked for a reply (stream_response, a     *)
(* generator the caller drives one step at a time).                        *)
(*                                                                         *)
(* agent is the instance the caller works with, peer a second instance     *)
(* built beside it; arg_id and arg_token are the arguments of the last     *)
(* create_agent call, built_env the environment agent was built from,      *)
(* sessions the number of transport sessions made so far, prev the outcome *)
(* of an earlier stream_response run on agent.                             *)
(* reg is the value the last registry function call returned,              *)
(* session_state the caller's st.session_state, caller the caller's        *)
(* position in its script run, closes the number of close() calls made,    *)
(* clock the wall clock in seconds.                                        *)
(*                                                                         *)
(* Python text is a sequence of tokens; Python values that may also be     *)
(* None, a number, a dict or a list are tagged records (Str, Num, ...).    *)
(***************************************************************************)
EXTENDS Integers, Sequences, FiniteSets, TLC

VARIABLES env, agent, arg_token, op, pc, resp, pos, chunks, exc, result, net,
          arg_id, sessions, built_env, peer, prev,
          reg, session_state, caller, closes, clock

vars == <<env, agent, arg_token, op, pc, resp, pos, chunks, exc, result, net,
          arg_id, sessions, built_env, peer, prev,
          reg, session_state, caller, closes, clock>>

\* what only the caller (app.py) and the registry functions write
app == <<reg, session_state, caller, closes, clock>>

\* ------------------------------------------------------------------ bounds
MaxEnvSet == 2
MaxTokenLen == 2
MaxLines == 3
MaxAdapters == 3

\* ------------------------------------------------------- Python values
None == [t |-> "none"]
Str(s) == [t |-> "str", s |-> s]
Num(n) == [t |-> "num", n |-> n]
Obj(o) == [t |-> "obj", o |-> o]
List(l) == [t |-> "list", l |-> l]
\* the text json.dumps(v) produces / the text json.loads reads v from
JsonText(v) == [t |-> "jsontext", of |-> v]
\* an exception of class e in flight
Raise(e) == [t |-> "exc", e |-> e]

IsExc(v) == v.t = "exc"

\* Python truthiness, as used by `or` and `if`
Truthy(v) ==
  CASE v.t = "none" -> FALSE
    [] v.t = "str" -> v.s # <<>>
    [] v.t = "num" -> v.n # 0
    [] v.t = "obj" -> DOMAIN v.o # {}
    [] v.t = "list" -> v.l # <<>>
    [] OTHER -> TRUE

\* a or b
Or(a, b) == IF Truthy(a) THEN a ELSE b

\* dict.get(k, default) on a dict o
DictGet(o, k, default) == IF k \in DOMAIN o THEN o[k] ELSE default

\* v.get(k, default) on any value: AttributeError unless v is a dict
Get(v, k, default) ==
  IF v.t = "obj" THEN DictGet(v.o, k, default) ELSE Raise("AttributeError")

\* d[k] = v
DictSet(d, k, v) == [x \in (DOMAIN d) \cup {k} |-> IF x = k THEN v ELSE d[x]]

\* str.rstrip("/")
RECURSIVE RStripSlash(_)
RStripSlash(s) ==
  IF s # <<>> /\ s[Len(s)] = "/" THEN RStripSlash(SubSeq(s, 1, Len(s) - 1)) ELSE s

\* str.strip() on a token of blanks and letters
RECURSIVE Strip(_)
Strip(s) ==
  IF s # <<>> /\ s[1] = " " THEN Strip(Tail(s))
  ELSE IF s # <<>> /\ s[Len(s)] = " " THEN Strip(SubSeq(s, 1, Len(s) - 1))
  ELSE s

\* ", ".join(names)
RECURSIVE Join(_)
Join(names) ==
  IF names = <<>> THEN <<>>
  ELSE IF Len(names) = 1 THEN <<names[1]>>
  ELSE <<names[1], ", ">> \o Join(Tail(names))

\* sub in text, for the Content-Type tests
Contains(text, sub) == \E i \in 1..Len(text) : text[i] = sub

\* ------------------------------------------------------------ environment
EnvVars == {"N8N_WEBHOOK_URL", "N8N_API_KEY",
            "DIFY_API_URL", "DIFY_API_KEY", "DIFY_USER",
            "LANGFLOW_API_URL", "LANGFLOW_FLOW_ID", "LANGFLOW_API_KEY",
            "FLOWISE_API_URL", "FLOWISE_CHATFLOW_ID", "FLOWISE_API_KEY"}

\* the value a set variable holds (it ends in a slash, as a base URL may)
EnvValue == <<"v", "/">>

Environments ==
  { [x \in S |-> EnvValue] : S \in {T \in SUBSET EnvVars : Cardinality(T) <= MaxEnvSet} }

\* os.getenv(name, default)
Getenv(e, name, default) == IF name \in DOMAIN e THEN e[name] ELSE default

\* ------------------------------------------------------------ constructors
NoAgent == [name |-> "none"]

AgentIds == {"n8n", "dify", "langflow", "flowise"}

RECURSIVE SeqsUpTo(_, _)
SeqsUpTo(S, n) ==
  IF n = 0 THEN {<<>>}
  ELSE LET shorter == SeqsUpTo(S, n - 1)
       IN shorter \cup {Append(s, x) : s \in {q \in shorter : Len(q) = n - 1}, x \in S}

Tokens == SeqsUpTo({" ", "a"}, MaxTokenLen)

\* AgentWorkflow.__init__: the token is stored stripped
MutAccessTokenInit(access_token) == access_token
AccessTokenInit(access_token) == Strip(access_token)

N8nAgent(e, access_token) ==
  [name |-> "n8n", access_token |-> AccessTokenInit(access_token), session |-> "open",
   webhook_url |-> RStripSlash(Getenv(e, "N8N_WEBHOOK_URL", <<>>)),
   api_key |-> Getenv(e, "N8N_API_KEY", <<>>)]

DifyAgent(e, access_token) ==
  [name |-> "dify", access_token |-> AccessTokenInit(access_token), session |-> "open",
   base_url |-> RStripSlash(Getenv(e, "DIFY_API_URL", <<"https://api.dify.ai/v1">>)),
   api_key |-> Getenv(e, "DIFY_API_KEY", <<>>),
   user |-> Getenv(e, "DIFY_USER", <<"streamlit-user">>)]

LangFlowAgent(e, access_token) ==
  [name |-> "langflow", access_token |-> AccessTokenInit(access_token), session |-> "open",
   base_url |-> RStripSlash(Getenv(e, "LANGFLOW_API_URL", <<"http://localhost:7860">>)),
   flow_id |-> Getenv(e, "LANGFLOW_FLOW_ID", <<>>),
   api_key |-> Getenv(e, "LANGFLOW_API_KEY", <<>>)]

FlowiseAgent(e, access_token) ==
  [name |-> "flowise", access_token |-> AccessTokenInit(access_token), session |-> "open",
   base_url |-> RStripSlash(Getenv(e, "FLOWISE_API_URL", <<"http://localhost:3000">>)),
   chatflow_id |-> Getenv(e, "FLOWISE_CHATFLOW_ID", <<>>),
   api_key |-> Getenv(e, "FLOWISE_API_KEY", <<>>)]

MutConstruct(agent_id, e, access_token) ==
  CASE agent_id = "n8n" -> N8nAgent(e, access_token)
    [] agent_id = "dify" -> DifyAgent(e, access_token)
    [] agent_id = "langflow" -> LangFlowAgent(e, access_token)
    [] agent_id = "flowise" -> LangFlowAgent(e, access_token)

\* _AGENT_REGISTRY[agent_id]["cls"](access_token=access_token)
Construct(agent_id, e, access_token) ==
  CASE agent_id = "n8n" -> N8nAgent(e, access_token)
    [] agent_id = "dify" -> DifyAgent(e, access_token)
    [] agent_id = "langflow" -> LangFlowAgent(e, access_token)
    [] agent_id = "flowise" -> FlowiseAgent(e, access_token)

\* ----------------------------------------------------------------- headers
WithAccessTokenHeader(self, headers) ==
  IF self.access_token # <<>>
  THEN DictSet(headers, "access_token", self.access_token)
  ELSE headers

ContentTypeJson == [x \in {"Content-Type"} |-> <<"application/json">>]

Headers(self) ==
  CASE self.name = "n8n" ->
         WithAccessTokenHeader(self,
           IF self.api_key # <<>>
           THEN DictSet(ContentTypeJson, "Authorization", <<"Bearer ">> \o self.api_key)
           ELSE ContentTypeJson)
    [] self.name = "dify" ->
         WithAccessTokenHeader(self,
           DictSet(ContentTypeJson, "Authorization", <<"Bearer ">> \o self.api_key))
    [] self.name = "langflow" ->
         WithAccessTokenHeader(self,
           IF self.api_key # <<>>
           THEN DictSet(ContentTypeJson, "x-api-key", self.api_key)
           ELSE ContentTypeJson)
    [] self.name = "flowise" ->
         WithAccessTokenHeader(self,
           IF self.api_key # <<>>
           THEN DictSet(ContentTypeJson, "Authorization", <<"Bearer ">> \o self.api_key)
           ELSE ContentTypeJson)

\* ------------------------------------------------------------- exceptions
\* classes derived from requests.exceptions.RequestException
RequestExceptions ==
  {"RequestException", "ConnectionError", "Timeout", "HTTPError",
   "ChunkedEncodingError", "TooManyRedirects", "JSONDecodeError"}

MutIsRequestException(e) == e \in {"ConnectionError", "Timeout"}
IsRequestException(e) == e \in RequestExceptions

\* what the backend does with one request
NoResp == [kind |-> "none"]
Failure(e) == [kind |-> "exc", e |-> e]
Response(status, ctype, lines, body) ==
  [kind |-> "response", status |-> status, ctype |-> ctype, lines |-> lines, body |-> body]

\* ------------------------------------------------------------ health probe
\* the setting stream_response tests before it sends anything
MutRequiredField(self) ==
  CASE self.name = "n8n" -> self.webhook_url
    [] self.name = "dify" -> self.base_url
    [] self.name = "langflow" -> self.flow_id
    [] self.name = "flowise" -> self.chatflow_id
RequiredField(self) ==
  CASE self.name = "n8n" -> self.webhook_url
    [] self.name = "dify" -> self.api_key
    [] self.name = "langflow" -> self.flow_id
    [] self.name = "flowise" -> self.chatflow_id

RequiredEnv(name) ==
  CASE name = "n8n" -> "N8N_WEBHOOK_URL"
    [] name = "dify" -> "DIFY_API_KEY"
    [] name = "langflow" -> "LANGFLOW_FLOW_ID"
    [] name = "flowise" -> "FLOWISE_CHATFLOW_ID"

MutMissingConfigResult(self, url, missing) ==
  [ok |-> TRUE, configured |-> FALSE, platform |-> self.name, url |-> url,
   status_code |-> Num(200),
   message |-> Str(<<"Missing configuration: ">> \o Join(missing))]
MissingConfigResult(self, url, missing) ==
  [ok |-> FALSE, configured |-> FALSE, platform |-> self.name, url |-> url,
   status_code |-> None,
   message |-> Str(<<"Missing configuration: ">> \o Join(missing))]

ProbeRequest(url, headers, method) ==
  [method |-> method, url |-> url, headers |-> headers, timeout |-> 5, json |-> None]

MutOkStatus(status_code) == status_code <= 500
OkStatus(status_code) == status_code < 500

StatusMessage(status_code) ==
  IF 200 <= status_code /\ status_code < 300 THEN <<"Connected successfully">>
  ELSE IF status_code \in {401, 403}
    THEN <<"Reachable but authentication failed (HTTP ", ToString(status_code), ")">>
  ELSE IF status_code \in {404, 405} THEN <<"Reachable (HTTP ", ToString(status_code), ")">>
  ELSE <<"HTTP ", ToString(status_code)>>

Unreachable(self, url, message) ==
  [ok |-> FALSE, configured |-> TRUE, platform |-> self.name, url |-> Str(url),
   status_code |-> None, message |-> Str(message)]

\* _health_check_request: the snapshot (or the exception that escapes) and the
\* requests put on the wire, for the backend outcome `outcome`
MutHealthCheckRequest(self, url, headers, method, outcome) ==
  IF url = <<>>
  THEN [result |-> MissingConfigResult(self, Str(url), <<"url">>), net |-> <<>>]
  ELSE
    [net |-> IF outcome.kind = "exc"
             THEN <<ProbeRequest(url, headers, method), ProbeRequest(url, headers, method)>>
             ELSE <<ProbeRequest(url, headers, method)>>,
     result |->
       IF outcome.kind = "response"
       THEN [ok |-> OkStatus(outcome.status), configured |-> TRUE, platform |-> self.name,
             url |-> Str(url), status_code |-> Num(outcome.status),
             message |-> Str(StatusMessage(outcome.status))]
       ELSE IF outcome.e = "ConnectionError"
         THEN Unreachable(self, url,
                <<"Connection refused - is the server running? (", outcome.e, ")">>)
       ELSE IF outcome.e = "Timeout"
         THEN Unreachable(self, url, <<"Connection timed out">>)
       ELSE IF IsRequestException(outcome.e)
         THEN Unreachable(self, url, <<outcome.e>>)
       ELSE Raise(outcome.e)]

HealthCheckRequest(self, url, headers, method, outcome) ==
  IF url = <<>>
  THEN [result |-> MissingConfigResult(self, Str(url), <<"url">>), net |-> <<>>]
  ELSE
    [net |-> <<ProbeRequest(url, headers, method)>>,
     result |->
       IF outcome.kind = "response"
       THEN [ok |-> OkStatus(outcome.status), configured |-> TRUE, platform |-> self.name,
             url |-> Str(url), status_code |-> Num(outcome.status),
             message |-> Str(StatusMessage(outcome.status))]
       ELSE IF outcome.e = "ConnectionError"
         THEN Unreachable(self, url,
                <<"Connection refused - is the server running? (", outcome.e, ")">>)
       ELSE IF outcome.e = "Timeout"
         THEN Unreachable(self, url, <<"Connection timed out">>)
       ELSE IF IsRequestException(outcome.e)
         THEN Unreachable(self, url, <<outcome.e>>)
       ELSE Raise(outcome.e)]

\* the names each health_check reports as missing
MutMissingConfig(self) ==
  CASE self.name = "n8n" -> IF self.webhook_url = <<>> THEN <<"N8N_WEBHOOK_URL">> ELSE <<>>
    [] self.name = "dify" -> <<>>
    [] self.name = "langflow" -> IF self.flow_id = <<>> THEN <<"LANGFLOW_FLOW_ID">> ELSE <<>>
    [] self.name = "flowise" ->
         IF self.chatflow_id = <<>> THEN <<"FLOWISE_CHATFLOW_ID">> ELSE <<>>
MissingConfig(self) ==
  CASE self.name = "n8n" -> IF self.webhook_url = <<>> THEN <<"N8N_WEBHOOK_URL">> ELSE <<>>
    [] self.name = "dify" -> IF self.api_key = <<>> THEN <<"DIFY_API_KEY">> ELSE <<>>
    [] self.name = "langflow" -> IF self.flow_id = <<>> THEN <<"LANGFLOW_FLOW_ID">> ELSE <<>>
    [] self.name = "flowise" ->
         IF self.chatflow_id = <<>> THEN <<"FLOWISE_CHATFLOW_ID">> ELSE <<>>

\* the url each health_check reports when configuration is missing
MissingUrl(self) == IF self.name = "n8n" THEN None ELSE Str(self.base_url)

\* the url each health_check probes
ProbeUrl(self) ==
  CASE self.name = "n8n" -> self.webhook_url
    [] self.name = "dify" -> self.base_url \o <<"/parameters">>
    [] self.name = "langflow" -> self.base_url \o <<"/api/v1/flows/">> \o self.flow_id
    [] self.name = "flowise" -> self.base_url \o <<"/api/v1/chatflows/">> \o self.chatflow_id

HealthCheckOf(self, outcome) ==
  IF MissingConfig(self) # <<>>
  THEN [result |-> MissingConfigResult(self, MissingUrl(self), MissingConfig(self)),
        net |-> <<>>]
  ELSE HealthCheckRequest(self, ProbeUrl(self), Headers(self), "GET", outcome)

ProbeStatuses == {200, 204, 302, 401, 403, 404, 405, 499, 500, 503}

ProbeOutcomes ==
  {Response(s, <<>>, <<>>, Str(<<>>)) : s \in ProbeStatuses}
    \cup {Failure(e) : e \in {"ConnectionError", "Timeout", "TooManyRedirects"}}

\* ------------------------------------------------------------ chat request
ChatRequest(self, query, session_id) ==
  CASE self.name = "n8n" ->
         [method |-> "POST", url |-> self.webhook_url, headers |-> Headers(self),
          timeout |-> 60,
          json |-> [query |-> query, sessionId |-> session_id, chatHistory |-> <<>>]]
    [] self.name = "dify" ->
         [method |-> "POST", url |-> self.base_url \o <<"/chat-messages">>,
          headers |-> Headers(self), timeout |-> 60,
          json |-> [inputs |-> <<>>, query |-> query, response_mode |-> "streaming",
                    conversation_id |-> <<>>, user |-> self.user]]
    [] self.name = "langflow" ->
         [method |-> "POST", url |-> self.base_url \o <<"/api/v1/run/">> \o self.flow_id,
          headers |-> Headers(self), timeout |-> 60,
          json |-> [input_value |-> query, output_type |-> "chat", input_type |-> "chat",
                    session_id |-> session_id, stream |-> TRUE]]
    [] self.name = "flowise" ->
         [method |-> "POST",
          url |-> self.base_url \o <<"/api/v1/prediction/">> \o self.chatflow_id,
          headers |-> Headers(self), timeout |-> 60,
          json |-> [question |-> query, sessionId |-> session_id, streaming |-> TRUE,
                    history |-> <<>>]]

\* response.raise_for_status()
MutRaisesForStatus(status) == 400 <= status /\ status < 500
RaisesForStatus(status) == 400 <= status /\ status < 600

\* send_request: the response, or the exception session.post / raise_for_status raise
SendRequest(outcome) ==
  IF outcome.kind = "exc" THEN outcome
  ELSE IF RaisesForStatus(outcome.status) THEN Failure("HTTPError")
  ELSE outcome

\* ------------------------------------------------------------ stream lines
\* One line of the reply as iter_lines delivers it: "data:" and blanks, then the
\* payload (prefix), or the payload alone.  A payload of class exception is
\* a read that fails at this point of the stream.
Line(prefix, payload) == [prefix |-> prefix, payload |-> payload]

Blank == Str(<<>>)
Done == Str(<<"[DONE]">>)

MessageFrame ==
  JsonText(Obj([event |-> Str(<<"message">>), answer |-> Str(<<"hi">>),
                text |-> Str(<<"txt">>)]))
MessageEndFrame == JsonText(Obj([event |-> Str(<<"message_end">>)]))
EndFrame == JsonText(Obj([event |-> Str(<<"end">>)]))
ErrorFrame ==
  JsonText(Obj([event |-> Str(<<"error">>), message |-> Str(<<"boom">>),
                data |-> Str(<<"bad">>)]))
TokenFrame ==
  JsonText(Obj([data |-> Str(<<"tok">>), chunk |-> Str(<<"c">>), output |-> Str(<<"out">>)]))
NumberFrame == JsonText(Num(5))
GarbageFrame == Str(<<"oops">>)
ReadError == Raise("ChunkedEncodingError")

Lines ==
  {Line(FALSE, Blank), Line(FALSE, ReadError), Line(FALSE, MessageEndFrame)}
    \cup {Line(TRUE, p) : p \in {Done, MessageFrame, MessageEndFrame, EndFrame, ErrorFrame,
                                 TokenFrame, NumberFrame, GarbageFrame}}

\* json.loads(text): the value, or ValueError
JsonLoads(text) == IF text.t = "jsontext" THEN text.of ELSE Raise("ValueError")

\* f"{v}"
Format(v) == IF v.t = "str" THEN v.s ELSE <<"repr">>

\* the warning sign U+26A0 U+FE0F that opens a warning chunk
WarningMarker == "(!)"

RequestFailed(e) == Str(<<WarningMarker, " Request failed: ", e>>)
NotConfigured(name) == Str(<<WarningMarker, " ", name, " is not configured.">>)
ErrorEvent(v) == Str(<<"\n", WarningMarker, " ">> \o Format(v))

\* what one pass of the loop body does with a line
Skip == [act |-> "skip", chunk |-> None]
Yield(v) == [act |-> "yield", chunk |-> v]
Break == [act |-> "break", chunk |-> None]
MutYieldBreak(v) == [act |-> "yield", chunk |-> v]
YieldBreak(v) == [act |-> "yield_break", chunk |-> v]
Throw(e) == [act |-> "raise", chunk |-> Raise(e)]

\* line[5:].strip() when the line starts with "data:", else the line
DataOf(line) == line.payload

\* sseclient: event.data of the event this line forms
EventData(line) == IF line.prefix THEN line.payload ELSE Blank

MutN8nEvent(line) ==
  LET data == EventData(line)
  IN IF Truthy(data) /\ data # Done
     THEN LET chunk == JsonLoads(data)
          IN IF IsExc(chunk) THEN Skip
             ELSE IF chunk.t # "obj" THEN Throw("AttributeError")
             ELSE Yield(Or(Or(Or(Get(chunk, "output", None), Get(chunk, "text", None)),
                              Get(chunk, "message", None)), Str(<<>>)))
     ELSE Skip

N8nEvent(line) ==
  LET data == EventData(line)
  IN IF Truthy(data) /\ data # Done
     THEN LET chunk == JsonLoads(data)
          IN IF IsExc(chunk) THEN Yield(data)
             ELSE IF chunk.t # "obj" THEN Throw("AttributeError")
             ELSE Yield(Or(Or(Or(Get(chunk, "output", None), Get(chunk, "text", None)),
                              Get(chunk, "message", None)), Str(<<>>)))
     ELSE Skip

MutDifyDispatch(chunk, event) ==
  IF event = Str(<<"message">>) THEN Yield(Get(chunk, "answer", Str(<<>>)))
  ELSE IF event = Str(<<"agent_message">>) THEN Yield(Get(chunk, "answer", Str(<<>>)))
  ELSE IF event = Str(<<"error">>)
    THEN YieldBreak(ErrorEvent(Get(chunk, "message", Str(<<"Unknown error">>))))
  ELSE Skip
DifyDispatch(chunk, event) ==
  IF event = Str(<<"message">>) THEN Yield(Get(chunk, "answer", Str(<<>>)))
  ELSE IF event = Str(<<"agent_message">>) THEN Yield(Get(chunk, "answer", Str(<<>>)))
  ELSE IF event = Str(<<"message_end">>) THEN Break
  ELSE IF event = Str(<<"error">>)
    THEN YieldBreak(ErrorEvent(Get(chunk, "message", Str(<<"Unknown error">>))))
  ELSE Skip

DifyLine(line) ==
  IF ~line.prefix /\ line.payload = Blank THEN Skip
  ELSE
    LET text == DataOf(line)
    IN IF text = Done \/ ~Truthy(text) THEN Skip
       ELSE LET chunk == JsonLoads(text)
            IN IF IsExc(chunk) THEN Yield(text)
               ELSE IF chunk.t # "obj" THEN Throw("AttributeError")
               ELSE DifyDispatch(chunk, Get(chunk, "event", Str(<<>>)))

LangFlowLine(line) ==
  IF ~line.prefix /\ line.payload = Blank THEN Skip
  ELSE
    LET text == DataOf(line)
    IN IF ~Truthy(text) \/ text = Done THEN Skip
       ELSE LET chunk == JsonLoads(text)
            IN IF IsExc(chunk) THEN Yield(text)
               ELSE IF chunk.t # "obj" THEN Throw("AttributeError")
               ELSE Yield(Or(Or(Get(chunk, "chunk", None), Get(chunk, "text", None)),
                             Str(<<>>)))

FlowiseLine(line) ==
  IF ~line.prefix /\ line.payload = Blank THEN Skip
  ELSE
    LET text == DataOf(line)
    IN IF ~Truthy(text) \/ text = Done THEN Skip
       ELSE LET chunk == JsonLoads(text)
            IN IF IsExc(chunk) THEN Yield(text)
               ELSE IF chunk.t # "obj" THEN Throw("AttributeError")
               ELSE LET event == Get(chunk, "event", Str(<<"token">>))
                    IN IF event \in {Str(<<"token">>), Str(<<"message">>)}
                         THEN Yield(Or(Get(chunk, "data", Str(<<>>)),
                                       Get(chunk, "text", Str(<<>>))))
                       ELSE IF event = Str(<<"end">>) THEN Break
                       ELSE IF event = Str(<<"error">>)
                         THEN YieldBreak(ErrorEvent(Get(chunk, "data",
                                                        Str(<<"Unknown error">>))))
                       ELSE Skip

LineStep(name, line) ==
  CASE name = "n8n" -> N8nEvent(line)
    [] name = "dify" -> DifyLine(line)
    [] name = "langflow" -> LangFlowLine(line)
    [] name = "flowise" -> FlowiseLine(line)

\* ------------------------------------------------------ blocking replies
ListBody == JsonText(List(<<Obj([output |-> Str(<<"out">>)])>>))
RunBody ==
  JsonText(Obj([outputs |-> List(<<Obj([outputs |-> List(<<Obj([results |->
    Obj([message |-> Obj([text |-> Str(<<"lf">>)])])])>>)])>>)]))
AnswerBody == JsonText(Obj([text |-> Str(<<"txt">>), message |-> Str(<<"msg">>)]))

Bodies == {Blank, GarbageFrame, NumberFrame, TokenFrame, ListBody, RunBody, AnswerBody,
           ReadError}

\* v[k] for a string key
GetKey(v, k) ==
  IF IsExc(v) THEN v
  ELSE IF v.t = "obj" THEN (IF k \in DOMAIN v.o THEN v.o[k] ELSE Raise("KeyError"))
  ELSE Raise("TypeError")

\* v[0]
GetFirst(v) ==
  IF IsExc(v) THEN v
  ELSE IF v.t = "list" THEN (IF v.l # <<>> THEN v.l[1] ELSE Raise("IndexError"))
  ELSE IF v.t = "str" THEN (IF v.s # <<>> THEN Str(<<v.s[1]>>) ELSE Raise("IndexError"))
  ELSE IF v.t = "obj" THEN Raise("KeyError")
  ELSE Raise("TypeError")

\* v.get(k, default), an exception in v passing through
GetE(v, k, default) == IF IsExc(v) THEN v ELSE Get(v, k, default)

\* response.json(): the value, the read failure, or requests' JSONDecodeError
\* (a RequestException that is a ValueError too)
ResponseJson(r) ==
  IF IsExc(r.body) THEN r.body
  ELSE IF r.body.t = "jsontext" THEN r.body.of
  ELSE Raise("JSONDecodeError")

\* response.text.strip()
ResponseText(r) == r.body

N8nProcessResponse(r) ==
  LET text == ResponseText(r)
  IN IF IsExc(text) THEN text
     ELSE IF Contains(r.ctype, "application/json")
       THEN LET loaded == ResponseJson(r)
                data == IF loaded.t = "list" /\ Truthy(loaded) THEN loaded.l[1] ELSE loaded
            IN IF IsExc(loaded) THEN text
               ELSE IF data.t # "obj" THEN text
               ELSE Or(Or(Or(Or(Get(data, "output", None), Get(data, "message", None)),
                             Get(data, "text", None)), Get(data, "response", None)),
                       JsonText(data))
     ELSE text

DifyProcessResponse(r) ==
  LET data == ResponseJson(r)
  IN IF IsExc(data) THEN data
     ELSE IF data.t # "obj" THEN Raise("AttributeError")
     ELSE Or(Or(Get(data, "answer", None), Get(data, "message", None)), JsonText(data))

LangFlowProcessResponse(r) ==
  LET data == ResponseJson(r)
      outputs == GetFirst(GetKey(GetFirst(GetKey(data, "outputs")), "outputs"))
      first == GetE(GetE(GetE(outputs, "results", Obj(<<>>)), "message", Obj(<<>>)),
                    "text", None)
      second == GetE(GetFirst(GetE(outputs, "messages", List(<<Obj(<<>>)>>))),
                     "message", None)
      caught == {"KeyError", "IndexError", "TypeError"}
  IN IF IsExc(data) THEN data
     ELSE IF IsExc(outputs) THEN JsonText(data)
     ELSE IF IsExc(first) THEN (IF first.e \in caught THEN JsonText(data) ELSE first)
     ELSE IF Truthy(first) THEN first
     ELSE IF IsExc(second) THEN (IF second.e \in caught THEN JsonText(data) ELSE second)
     ELSE Or(second, JsonText(data))

FlowiseProcessResponse(r) ==
  IF Contains(r.ctype, "application/json")
  THEN LET data == ResponseJson(r)
       IN IF IsExc(data) THEN data
          ELSE IF data.t # "obj" THEN Raise("AttributeError")
          ELSE Or(Or(Or(Get(data, "text", None), Get(data, "answer", None)),
                     Get(data, "output", None)), JsonText(data))
  ELSE ResponseText(r)

ProcessResponse(name, r) ==
  CASE name = "n8n" -> N8nProcessResponse(r)
    [] name = "dify" -> DifyProcessResponse(r)
    [] name = "langflow" -> LangFlowProcessResponse(r)
    [] name = "flowise" -> FlowiseProcessResponse(r)

\* the branch stream_response takes on a response: the line loop, or one
\* process_response chunk
MutStreamsLines(name, r) ==
  name \in {"dify", "n8n"} \/ Contains(r.ctype, "text/event-stream")
StreamsLines(name, r) ==
  name = "dify" \/ Contains(r.ctype, "text/event-stream")

\* ---------------------------------------------------------------- backend
EventStream == <<"text/event-stream", "; charset=utf-8">>

\* the lines iter_lines delivers for a body that is not an event stream
BodyLines(body) == IF body = Blank THEN <<>> ELSE <<Line(FALSE, body)>>

\* replies to the chat request with the lines `lines` to choose from
RepliesWith(lines) ==
  {Failure(e) : e \in {"ConnectionError", "Timeout"}}
    \cup {Response(st, <<>>, <<>>, Blank) : st \in {404, 500}}
    \cup {Response(200, EventStream, l, Blank) : l \in lines}
    \cup {Response(200, c, BodyLines(b), b) : c \in {<<"application/json">>, <<>>}, b \in Bodies}

\* every reply of up to MaxLines lines
SendOutcomes == RepliesWith(SeqsUpTo(Lines, MaxLines))

\* the replies of at most one line
ShortOutcomes == RepliesWith({<<>>} \cup {<<l>> : l \in Lines})

\* a failed request, a refused one, one streamed frame, one JSON body
FewOutcomes ==
  {Failure("ConnectionError"), Response(500, <<>>, <<>>, Blank),
   Response(200, EventStream, <<Line(TRUE, MessageFrame)>>, Blank),
   Response(200, <<"application/json">>, BodyLines(AnswerBody), AnswerBody)}

\* an answered probe and a failed one
FewProbes == {Response(200, <<>>, <<>>, Str(<<>>)), Failure("Timeout")}

Queries == {<<"q">>}
SessionIds == {<<"s">>}
IdInputs == AgentIds \cup {"other"}

\* ------------------------------------------------------------------ state
\* no earlier run of stream_response on this instance
NoRun == [pc |-> "none"]

\* no registry function has been called
NoCall == [fn |-> "none"]

\* None where an agent id is expected
NoId == ""

\* ensure_session_state: the defaults of st.session_state
SessionState ==
  [is_processing |-> FALSE, processing_started_at |-> None,
   agent_connection_cache |-> <<>>, _last_checked_agent_id |-> NoId,
   selected_agent_id |-> NoId]

Init ==
  /\ env \in Environments
  /\ agent = NoAgent
  /\ arg_token = <<>>
  /\ op = "none"
  /\ pc = "idle"
  /\ resp = NoResp
  /\ pos = 0
  /\ chunks = <<>>
  /\ exc = ""
  /\ result = None
  /\ net = <<>>
  /\ arg_id = ""
  /\ sessions = 0
  /\ built_env = <<>>
  /\ peer = NoAgent
  /\ prev = NoRun
  /\ reg = NoCall
  /\ session_state = SessionState
  /\ caller = "idle"
  /\ closes = 0
  /\ clock = 0

\* the instance is fresh: the caller builds one adapter for each probe or
\* question (app.py) and makes its one call on it
Ready == pc = "idle"

\* create_agent(agent_id, access_token)
MutCreateAgent(agent_id, access_token) ==
  /\ agent = NoAgent
  /\ pc = "idle"
  /\ op' = "create"
  /\ arg_id' = agent_id
  /\ arg_token' = access_token
  /\ IF TRUE
     THEN /\ agent' = Construct(IF agent_id \in AgentIds THEN agent_id ELSE "n8n",
                                env, access_token)
          /\ sessions' = sessions + 1
          /\ built_env' = env
          /\ UNCHANGED <<pc, exc>>
     ELSE /\ pc' = "raised"
          /\ exc' = "ValueError"
          /\ UNCHANGED <<agent, sessions, built_env>>
  /\ UNCHANGED <<env, resp, pos, chunks, result, net, peer, prev>>
  /\ UNCHANGED app

CreateAgent(agent_id, access_token) ==
  /\ agent = NoAgent
  /\ pc = "idle"
  /\ op' = "create"
  /\ arg_id' = agent_id
  /\ arg_token' = access_token
  /\ IF agent_id \in AgentIds
     THEN /\ agent' = Construct(agent_id, env, access_token)
          /\ sessions' = sessions + 1
          /\ built_env' = env
          /\ UNCHANGED <<pc, exc>>
     ELSE /\ pc' = "raised"
          /\ exc' = "ValueError"
          /\ UNCHANGED <<agent, sessions, built_env>>
  /\ UNCHANGED <<env, resp, pos, chunks, result, net, peer, prev>>
  /\ UNCHANGED app

\* agent.health_check()
HealthCheck(outcome) ==
  /\ agent # NoAgent
  /\ Ready
  /\ LET h == HealthCheckOf(agent, outcome)
         raised == "t" \in DOMAIN h.result
     IN /\ op' = "health"
        /\ net' = h.net
        /\ resp' = IF h.net = <<>> THEN NoResp ELSE outcome
        /\ result' = IF raised THEN None ELSE h.result
        /\ pc' = IF raised THEN "raised" ELSE "done"
        /\ exc' = IF raised THEN h.result.e ELSE ""
  /\ pos' = 0
  /\ chunks' = <<>>
  /\ UNCHANGED <<env, agent, arg_token, arg_id, sessions, built_env, peer, prev>>
  /\ UNCHANGED app

\* the handler of stream_response's outer try: a RequestException becomes a
\* last warning chunk, anything else leaves the generator
Except(e, yielded) ==
  IF IsRequestException(e)
  THEN /\ chunks' = Append(yielded, RequestFailed(e))
       /\ pc' = "final"
       /\ exc' = ""
  ELSE /\ chunks' = yielded
       /\ pc' = "raised"
       /\ exc' = e

\* stream_response(query, session_id) up to its first suspension: the
\* configuration test, send_request, and the choice of branch
MutStreamStart(query, session_id, outcome) ==
  /\ agent # NoAgent
  /\ Ready
  /\ op' = "stream"
  /\ pos' = pos
  /\ result' = None
  /\ IF RequiredField(agent) = <<>>
     THEN /\ chunks' = <<NotConfigured(RequiredEnv(agent.name))>>
          /\ pc' = "final"
          /\ exc' = ""
          /\ net' = <<>>
          /\ resp' = NoResp
     ELSE /\ net' = <<ChatRequest(agent, query, session_id)>>
          /\ resp' = outcome
          /\ LET r == SendRequest(outcome)
             IN IF r.kind = "exc" THEN Except(r.e, <<>>)
                ELSE IF StreamsLines(agent.name, r)
                  THEN /\ chunks' = <<>>
                       /\ pc' = "iterating"
                       /\ exc' = ""
                ELSE LET text == ProcessResponse(agent.name, r)
                     IN IF IsExc(text) THEN Except(text.e, <<>>)
                        ELSE /\ chunks' = <<text>>
                             /\ pc' = "final"
                             /\ exc' = ""
  /\ UNCHANGED <<env, agent, arg_token, arg_id, sessions, built_env, peer, prev>>
  /\ UNCHANGED app

StreamStart(query, session_id, outcome) ==
  /\ agent # NoAgent
  /\ Ready
  /\ op' = "stream"
  /\ pos' = 0
  /\ result' = None
  /\ IF RequiredField(agent) = <<>>
     THEN /\ chunks' = <<NotConfigured(RequiredEnv(agent.name))>>
          /\ pc' = "final"
          /\ exc' = ""
          /\ net' = <<>>
          /\ resp' = NoResp
     ELSE /\ net' = <<ChatRequest(agent, query, session_id)>>
          /\ resp' = outcome
          /\ LET r == SendRequest(outcome)
             IN IF r.kind = "exc" THEN Except(r.e, <<>>)
                ELSE IF StreamsLines(agent.name, r)
                  THEN /\ chunks' = <<>>
                       /\ pc' = "iterating"
                       /\ exc' = ""
                ELSE LET text == ProcessResponse(agent.name, r)
                     IN IF IsExc(text) THEN Except(text.e, <<>>)
                        ELSE /\ chunks' = <<text>>
                             /\ pc' = "final"
                             /\ exc' = ""
  /\ UNCHANGED <<env, agent, arg_token, arg_id, sessions, built_env, peer, prev>>
  /\ UNCHANGED app

\* the caller's stream_response call, answered by one of `outcomes`
StreamCall(outcomes) ==
  /\ agent # NoAgent
  /\ Ready
  /\ \E query \in Queries, session_id \in SessionIds, outcome \in outcomes :
        StreamStart(query, session_id, outcome)

\* one pass of the line loop: read the next line and process it
MutReadLine ==
  /\ pc = "iterating"
  /\ IF pos = Len(resp.lines)
     THEN /\ pc' = "done"
          /\ UNCHANGED <<pos, chunks, exc>>
     ELSE LET line == resp.lines[pos + 1]
              step == LineStep(agent.name, line)
          IN /\ pos' = pos + 1
             /\ IF IsExc(line.payload) THEN Except(line.payload.e, chunks)
                ELSE IF step.act = "raise" THEN Except(step.chunk.e, chunks)
                ELSE /\ chunks' = IF step.act \in {"yield", "yield_break"}
                                  THEN <<step.chunk>> \o chunks ELSE chunks
                     /\ pc' = CASE step.act = "break" -> "done"
                                [] step.act = "yield_break" -> "final"
                                [] OTHER -> "iterating"
                     /\ exc' = ""
  /\ UNCHANGED <<env, agent, arg_token, op, resp, result, net,
                 arg_id, sessions, built_env, peer, prev>>
  /\ UNCHANGED app

ReadLine ==
  /\ pc = "iterating"
  /\ IF pos = Len(resp.lines)
     THEN /\ pc' = "done"
          /\ UNCHANGED <<pos, chunks, exc>>
     ELSE LET line == resp.lines[pos + 1]
              step == LineStep(agent.name, line)
          IN /\ pos' = pos + 1
             /\ IF IsExc(line.payload) THEN Except(line.payload.e, chunks)
                ELSE IF step.act = "raise" THEN Except(step.chunk.e, chunks)
                ELSE /\ chunks' = IF step.act \in {"yield", "yield_break"}
                                  THEN Append(chunks, step.chunk) ELSE chunks
                     /\ pc' = CASE step.act = "break" -> "done"
                                [] step.act = "yield_break" -> "final"
                                [] OTHER -> "iterating"
                     /\ exc' = ""
  /\ UNCHANGED <<env, agent, arg_token, op, resp, result, net,
                 arg_id, sessions, built_env, peer, prev>>
  /\ UNCHANGED app

\* the generator is resumed after its last yield and returns
Finish ==
  /\ pc = "final"
  /\ pc' = "done"
  /\ UNCHANGED <<env, agent, arg_token, op, resp, pos, chunks, exc, result, net,
                 arg_id, sessions, built_env, peer, prev>>
  /\ UNCHANGED app

\* Every environment and every token, with replies of at most one line
Next ==
  \/ \E agent_id \in IdInputs, access_token \in Tokens : CreateAgent(agent_id, access_token)
  \/ \E outcome \in ProbeOutcomes : HealthCheck(outcome)
  \/ StreamCall(ShortOutcomes)
  \/ ReadLine
  \/ Finish

Spec == Init /\ [][Next]_vars

\* Every reply of up to MaxLines lines, for the adapters built without a token
\* from an environment that sets their required variable alone, or nothing
StreamEnvironments ==
  {e \in Environments : DOMAIN e \in {{}} \cup {{RequiredEnv(a)} : a \in AgentIds}}

InitStream == Init /\ env \in StreamEnvironments

NextStream ==
  \/ \E agent_id \in AgentIds : CreateAgent(agent_id, <<>>)
  \/ StreamCall(SendOutcomes)
  \/ ReadLine
  \/ Finish

SpecStream == InitStream /\ [][NextStream]_vars

\* ------------------------------------------------------------- registry
\* _AGENT_REGISTRY, in insertion order
AgentRegistry ==
  <<[id |-> "n8n", label |-> "n8n Workflow"], [id |-> "dify", label |-> "Dify"],
    [id |-> "langflow", label |-> "LangFlow"], [id |-> "flowise", label |-> "Flowise"]>>

\* _ENV_KEYS[name]["key_env"]: the variable holding an adapter's API key
KeyEnv(name) ==
  CASE name = "n8n" -> "N8N_API_KEY"
    [] name = "dify" -> "DIFY_API_KEY"
    [] name = "langflow" -> "LANGFLOW_API_KEY"
    [] name = "flowise" -> "FLOWISE_API_KEY"

\* _ENV_KEYS[name]["url_env"]
UrlEnv(name) ==
  CASE name = "n8n" -> "N8N_WEBHOOK_URL"
    [] name = "dify" -> "DIFY_API_URL"
    [] name = "langflow" -> "LANGFLOW_API_URL"
    [] name = "flowise" -> "FLOWISE_API_URL"

MutListAvailableAgentsOf(registry) ==
  [i \in 1..Len(registry) |->
     [id |-> registry[Len(registry) + 1 - i].id,
      label |-> registry[Len(registry) + 1 - i].label]]

\* list_available_agents: the descriptors, in the order of the dict's items
ListAvailableAgentsOf(registry) ==
  [i \in 1..Len(registry) |-> [id |-> registry[i].id, label |-> registry[i].label]]

ListAvailableAgents ==
  /\ reg' = [fn |-> "list_available_agents", value |-> ListAvailableAgentsOf(AgentRegistry)]
  /\ UNCHANGED <<env, agent, arg_token, op, pc, resp, pos, chunks, exc, result, net,
                 arg_id, sessions, built_env, peer, prev, session_state, caller, closes, clock>>

MutGetAgentEnvConfigOf(agent_id, e) ==
  LET known == IF agent_id \in AgentIds THEN agent_id ELSE "n8n"
  IN [url_env |-> IF agent_id \in AgentIds THEN UrlEnv(known) ELSE "",
      has_api_key |-> Getenv(e, KeyEnv(known), <<>>) # <<>>]

\* get_agent_env_config: an id without keys reads the variable named ""
GetAgentEnvConfigOf(agent_id, e) ==
  LET url_env == IF agent_id \in AgentIds THEN UrlEnv(agent_id) ELSE ""
      key_env == IF agent_id \in AgentIds THEN KeyEnv(agent_id) ELSE ""
  IN [url_env |-> url_env, has_api_key |-> Getenv(e, key_env, <<>>) # <<>>]

GetAgentEnvConfig(agent_id) ==
  /\ reg' = [fn |-> "get_agent_env_config", agent_id |-> agent_id,
             value |-> GetAgentEnvConfigOf(agent_id, env)]
  /\ UNCHANGED <<env, agent, arg_token, op, pc, resp, pos, chunks, exc, result, net,
                 arg_id, sessions, built_env, peer, prev, session_state, caller, closes, clock>>

\* ---------------------------------------------------------- life cycle
MutConnectionInfo(self) ==
  [platform |-> self.name,
   endpoint |->
     CASE self.name = "n8n" -> IF self.webhook_url # <<>> THEN Str(self.webhook_url) ELSE None
       [] self.name = "dify" -> Str(self.base_url)
       [] self.name = "langflow" ->
            IF self.flow_id # <<>>
            THEN Str(self.base_url \o <<"/api/v1/run/">> \o self.flow_id)
            ELSE Str(self.base_url)
       [] self.name = "flowise" ->
            IF self.chatflow_id # <<>>
            THEN Str(self.base_url \o <<"/api/v1/prediction/">> \o self.chatflow_id)
            ELSE Str(self.base_url),
   has_api_key |-> Getenv(env, KeyEnv(self.name), <<>>) # <<>>]

\* get_connection_info
ConnectionInfo(self) ==
  [platform |-> self.name,
   endpoint |->
     CASE self.name = "n8n" -> IF self.webhook_url # <<>> THEN Str(self.webhook_url) ELSE None
       [] self.name = "dify" -> Str(self.base_url)
       [] self.name = "langflow" ->
            IF self.flow_id # <<>>
            THEN Str(self.base_url \o <<"/api/v1/run/">> \o self.flow_id)
            ELSE Str(self.base_url)
       [] self.name = "flowise" ->
            IF self.chatflow_id # <<>>
            THEN Str(self.base_url \o <<"/api/v1/prediction/">> \o self.chatflow_id)
            ELSE Str(self.base_url),
   has_api_key |-> self.api_key # <<>>]

GetConnectionInfo ==
  /\ agent # NoAgent
  /\ Ready
  /\ op' = "info"
  /\ result' = ConnectionInfo(agent)
  /\ pc' = "done"
  /\ resp' = NoResp
  /\ net' = <<>>
  /\ pos' = 0
  /\ chunks' = <<>>
  /\ exc' = ""
  /\ UNCHANGED <<env, agent, arg_token, arg_id, sessions, built_env, peer, prev>>
  /\ UNCHANGED app

MutCloseOf(self) ==
  IF RequiredField(self) = <<>>
  THEN [self |-> self, exc |-> "AttributeError"]
  ELSE [self |-> [self EXCEPT !.session = "closed"], exc |-> ""]

\* close: self.session.close(), which raises nothing
CloseOf(self) == [self |-> [self EXCEPT !.session = "closed"], exc |-> ""]

\* the caller closes the instance after its call ended
Close ==
  /\ agent # NoAgent
  /\ agent.session = "open"
  /\ op \in {"stream", "health", "info"}
  /\ pc \in {"done", "raised"}
  /\ op' = "close"
  /\ LET c == CloseOf(agent)
     IN /\ agent' = c.self
        /\ IF c.exc # ""
           THEN pc' = "raised" /\ exc' = c.exc
           ELSE UNCHANGED <<pc, exc>>
  /\ UNCHANGED <<env, arg_token, resp, pos, chunks, result, net,
                 arg_id, sessions, built_env, peer, prev>>
  /\ closes' = closes + 1
  /\ UNCHANGED <<reg, session_state, caller, clock>>

\* a second create_agent call, while the first instance is alive
CreatePeer(agent_id) ==
  /\ agent # NoAgent
  /\ peer = NoAgent
  /\ agent_id \in AgentIds
  /\ arg_id' = agent_id
  /\ arg_token' = <<>>
  /\ peer' = Construct(agent_id, env, <<>>)
  /\ sessions' = sessions + 1
  /\ UNCHANGED <<env, agent, op, pc, resp, pos, chunks, exc, result, net, built_env, prev>>
  /\ UNCHANGED app

\* close() of the second instance
ClosePeer ==
  /\ peer # NoAgent
  /\ peer.session = "open"
  /\ peer' = CloseOf(peer).self
  /\ UNCHANGED <<env, agent, arg_token, op, pc, resp, pos, chunks, exc, result, net,
                 arg_id, sessions, built_env, prev>>
  /\ closes' = closes + 1
  /\ UNCHANGED <<reg, session_state, caller, clock>>

\* a stream_response generator has ended; the caller keeps the instance and
\* may invoke it once more
Reuse ==
  /\ op = "stream"
  /\ pc \in {"done", "raised"}
  /\ prev = NoRun
  /\ prev' = [pc |-> pc, exc |-> exc, resp |-> resp, chunks |-> chunks, net |-> net]
  /\ pc' = "idle"
  /\ UNCHANGED <<env, agent, arg_token, op, resp, pos, chunks, exc, result, net,
                 arg_id, sessions, built_env, peer>>
  /\ UNCHANGED app

InitLife == Init /\ env \in StreamEnvironments

NextLife ==
  \/ \E agent_id \in AgentIds : CreateAgent(agent_id, <<>>)
  \/ \E agent_id \in AgentIds : CreatePeer(agent_id)
  \/ GetConnectionInfo
  \/ \E outcome \in FewProbes : HealthCheck(outcome)
  \/ StreamCall(ShortOutcomes)
  \/ ReadLine
  \/ Finish
  \/ Reuse
  \/ Close
  \/ ClosePeer
  \/ ListAvailableAgents

SpecLife == InitLife /\ [][NextLife]_vars

\* ----------------------------------------------- environment changes
\* another value a variable may be given
OtherValue == <<"w">>

\* os.environ[name] = value, once the instance is built
SetEnv(name, value) ==
  /\ agent # NoAgent
  /\ Ready
  /\ env = built_env
  /\ env' = [x \in DOMAIN env \cup {name} |-> IF x = name THEN value ELSE env[x]]
  /\ env' # env
  /\ UNCHANGED <<agent, arg_token, op, pc, resp, pos, chunks, exc, result, net,
                 arg_id, sessions, built_env, peer, prev>>
  /\ UNCHANGED app

\* del os.environ[name], once the instance is built
UnsetEnv(name) ==
  /\ agent # NoAgent
  /\ Ready
  /\ env = built_env
  /\ name \in DOMAIN env
  /\ env' = [x \in DOMAIN env \ {name} |-> env[x]]
  /\ UNCHANGED <<agent, arg_token, op, pc, resp, pos, chunks, exc, result, net,
                 arg_id, sessions, built_env, peer, prev>>
  /\ UNCHANGED app

NextEnv ==
  \/ \E agent_id \in AgentIds : CreateAgent(agent_id, <<>>)
  \/ \E name \in EnvVars, value \in {EnvValue, OtherValue} : SetEnv(name, value)
  \/ \E name \in EnvVars : UnsetEnv(name)
  \/ GetConnectionInfo
  \/ \E outcome \in FewProbes : HealthCheck(outcome)
  \/ StreamCall(FewOutcomes)
  \/ ReadLine
  \/ Finish
  \/ \E agent_id \in IdInputs : GetAgentEnvConfig(agent_id)

SpecEnv == Init /\ [][NextEnv]_vars

\* ---------------------------------------------------------------- caller
PROCESSING_TIMEOUT_SECONDS == 300

\* the instants the clock is read at
Instants == {0, 1, PROCESSING_TIMEOUT_SECONDS, PROCESSING_TIMEOUT_SECONDS + 1}

\* time passes between two script runs
Tick ==
  /\ caller = "idle"
  /\ \E t \in Instants : t > clock /\ clock' = t
  /\ UNCHANGED <<env, agent, arg_token, op, pc, resp, pos, chunks, exc, result, net,
                 arg_id, sessions, built_env, peer, prev, reg, session_state, caller,
                 closes>>

MutTimeoutGuardOf(s, now) ==
  IF s.is_processing /\ s.processing_started_at # None
  THEN IF now - s.processing_started_at.n > PROCESSING_TIMEOUT_SECONDS + 1
       THEN [s EXCEPT !.is_processing = FALSE, !.processing_started_at = None]
       ELSE s
  ELSE s

\* the timeout guard at the top of the script
TimeoutGuardOf(s, now) ==
  IF s.is_processing /\ s.processing_started_at # None
  THEN IF now - s.processing_started_at.n > PROCESSING_TIMEOUT_SECONDS
       THEN [s EXCEPT !.is_processing = FALSE, !.processing_started_at = None]
       ELSE s
  ELSE s

\* a script run starts: ensure_session_state, then the timeout guard
TimeoutGuard ==
  /\ caller = "idle"
  /\ sessions < MaxAdapters
  /\ session_state' = TimeoutGuardOf(session_state, clock)
  /\ caller' = "guard"
  /\ UNCHANGED <<env, agent, arg_token, op, pc, resp, pos, chunks, exc, result, net,
                 arg_id, sessions, built_env, peer, prev, reg, closes, clock>>

\* the snapshot built when create_agent, get_connection_info or health_check raised
FailedSnapshot(agent_id, e) ==
  [connection |-> [platform |-> agent_id, endpoint |-> None, has_api_key |-> FALSE],
   health |-> [ok |-> FALSE, configured |-> FALSE, platform |-> agent_id, url |-> None,
               status_code |-> None, message |-> Str(<<e>>)]]

\* dict item assignment cache[agent_id] = snapshot
CachePut(cache, agent_id, snapshot) ==
  [x \in DOMAIN cache \cup {agent_id} |-> IF x = agent_id THEN snapshot ELSE cache[x]]

MutGetAgentStatusSnapshotOf(agent_id, force_refresh, cache, e, access_token, outcome) ==
  IF agent_id = NoId
  THEN [snapshot |-> None, cache |-> cache, net |-> <<>>, created |-> 0, closed |-> 0]
  ELSE IF agent_id \in DOMAIN cache
  THEN [snapshot |-> cache[agent_id], cache |-> cache, net |-> <<>>,
        created |-> 0, closed |-> 0]
  ELSE IF agent_id \notin AgentIds
  THEN [snapshot |-> FailedSnapshot(agent_id, "ValueError"),
        cache |-> CachePut(cache, agent_id, FailedSnapshot(agent_id, "ValueError")),
        net |-> <<>>, created |-> 0, closed |-> 0]
  ELSE LET agent_client == Construct(agent_id, e, access_token)
           connection_info == ConnectionInfo(agent_client)
           h == HealthCheckOf(agent_client, outcome)
           snapshot == IF "t" \in DOMAIN h.result
                       THEN FailedSnapshot(agent_id, h.result.e)
                       ELSE [connection |-> connection_info, health |-> h.result]
       IN [snapshot |-> snapshot, cache |-> CachePut(cache, agent_id, snapshot),
           net |-> h.net, created |-> 1,
           closed |-> IF CloseOf(agent_client).exc = "" THEN 1 ELSE 0]

\* get_agent_status_snapshot, with the adapter it makes and closes
GetAgentStatusSnapshotOf(agent_id, force_refresh, cache, e, access_token, outcome) ==
  IF agent_id = NoId
  THEN [snapshot |-> None, cache |-> cache, net |-> <<>>, created |-> 0, closed |-> 0]
  ELSE IF ~force_refresh /\ agent_id \in DOMAIN cache
  THEN [snapshot |-> cache[agent_id], cache |-> cache, net |-> <<>>,
        created |-> 0, closed |-> 0]
  ELSE IF agent_id \notin AgentIds
  THEN [snapshot |-> FailedSnapshot(agent_id, "ValueError"),
        cache |-> CachePut(cache, agent_id, FailedSnapshot(agent_id, "ValueError")),
        net |-> <<>>, created |-> 0, closed |-> 0]
  ELSE LET agent_client == Construct(agent_id, e, access_token)
           connection_info == ConnectionInfo(agent_client)
           h == HealthCheckOf(agent_client, outcome)
           snapshot == IF "t" \in DOMAIN h.result
                       THEN FailedSnapshot(agent_id, h.result.e)
                       ELSE [connection |-> connection_info, health |-> h.result]
       IN [snapshot |-> snapshot, cache |-> CachePut(cache, agent_id, snapshot),
           net |-> h.net, created |-> 1,
           closed |-> IF CloseOf(agent_client).exc = "" THEN 1 ELSE 0]

\* render_sidebar: the platform chosen in the select box, the refresh button,
\* the snapshot and the environment summary
RenderSidebar(selected_agent_id, refresh_connection, outcome) ==
  /\ caller = "guard"
  /\ LET agent_changed == session_state._last_checked_agent_id # selected_agent_id
         g == GetAgentStatusSnapshotOf(selected_agent_id,
                                       agent_changed \/ refresh_connection,
                                       session_state.agent_connection_cache, env, <<>>,
                                       outcome)
     IN /\ session_state' = [session_state EXCEPT
                               !.selected_agent_id = selected_agent_id,
                               !.agent_connection_cache = g.cache,
                               !._last_checked_agent_id = selected_agent_id]
        /\ result' = g.snapshot
        /\ net' = g.net
        /\ resp' = IF g.net = <<>> THEN NoResp ELSE outcome
        /\ sessions' = sessions + g.created
        /\ closes' = closes + g.closed
  /\ op' = IF refresh_connection THEN "refresh" ELSE "snapshot"
  /\ reg' = [fn |-> "get_agent_env_config", agent_id |-> selected_agent_id,
             value |-> GetAgentEnvConfigOf(selected_agent_id, env)]
  /\ caller' = "body"
  /\ UNCHANGED <<env, agent, arg_token, pc, pos, chunks, exc, arg_id, built_env, peer,
                 prev, clock>>

\* the run ends with no user message
NoMessage ==
  /\ caller = "body"
  /\ caller' = "idle"
  /\ UNCHANGED <<env, agent, arg_token, op, pc, resp, pos, chunks, exc, result, net,
                 arg_id, sessions, built_env, peer, prev, reg, session_state, closes,
                 clock>>

\* a user message is handled: the flags are set and get_response_stream is made
BeginMessage ==
  /\ caller = "body"
  /\ agent = NoAgent
  /\ session_state' = [session_state EXCEPT !.is_processing = TRUE,
                                            !.processing_started_at = Num(clock)]
  /\ caller' = "message"
  /\ op' = "none"
  /\ pc' = "idle"
  /\ resp' = NoResp
  /\ pos' = 0
  /\ chunks' = <<>>
  /\ exc' = ""
  /\ result' = None
  /\ net' = <<>>
  /\ UNCHANGED <<env, agent, arg_token, arg_id, sessions, built_env, peer, prev, reg,
                 closes, clock>>

\* get_response_stream: except Exception yields one more chunk
Catch ==
  /\ caller = "message"
  /\ pc = "raised"
  /\ chunks' = Append(chunks, Str(<<WarningMarker, " Error: ", exc>>))
  /\ pc' = "final"
  /\ exc' = ""
  /\ UNCHANGED <<env, agent, arg_token, op, resp, pos, result, net,
                 arg_id, sessions, built_env, peer, prev>>
  /\ UNCHANGED app

\* get_response_stream: the generator ends, finally closes the adapter
Finally ==
  /\ caller = "message"
  /\ pc = "done"
  /\ agent' = NoAgent
  /\ closes' = IF agent # NoAgent /\ CloseOf(agent).exc = "" THEN closes + 1 ELSE closes
  /\ caller' = "after"
  /\ UNCHANGED <<env, arg_token, op, pc, resp, pos, chunks, exc, result, net,
                 arg_id, sessions, built_env, peer, prev, reg, session_state, clock>>

MutAbandon ==
  /\ caller = "message"
  /\ pc \in {"iterating", "final"}
  /\ chunks # <<>>
  /\ agent' = NoAgent
  /\ closes' = closes
  /\ pc' = "done"
  /\ op' = "abandoned"
  /\ caller' = "after"
  /\ UNCHANGED <<env, arg_token, resp, pos, chunks, exc, result, net,
                 arg_id, sessions, built_env, peer, prev, reg, session_state, clock>>

\* the consumer stops iterating after a chunk: the generator is closed at its
\* yield and finally closes the adapter
Abandon ==
  /\ caller = "message"
  /\ pc \in {"iterating", "final"}
  /\ chunks # <<>>
  /\ agent' = NoAgent
  /\ closes' = IF agent # NoAgent /\ CloseOf(agent).exc = "" THEN closes + 1 ELSE closes
  /\ pc' = "done"
  /\ op' = "abandoned"
  /\ caller' = "after"
  /\ UNCHANGED <<env, arg_token, resp, pos, chunks, exc, result, net,
                 arg_id, sessions, built_env, peer, prev, reg, session_state, clock>>

\* the message is handled or its handling raised: finally clears the flags
EndMessage ==
  /\ caller = "after"
  /\ session_state' = [session_state EXCEPT !.is_processing = FALSE,
                                            !.processing_started_at = None]
  /\ caller' = "idle"
  /\ UNCHANGED <<env, agent, arg_token, op, pc, resp, pos, chunks, exc, result, net,
                 arg_id, sessions, built_env, peer, prev, reg, closes, clock>>

\* a failed request, a streamed message and a streamed number
AppOutcomes ==
  {Failure("ConnectionError"),
   Response(200, EventStream, <<Line(TRUE, MessageFrame)>>, Blank),
   Response(200, EventStream, <<Line(TRUE, NumberFrame)>>, Blank)}

\* the session state a run starts from: the defaults, or the flag left set by
\* a run that never reached its finally
InitApp ==
  /\ env \in StreamEnvironments
  /\ agent = NoAgent
  /\ arg_token = <<>>
  /\ op = "none"
  /\ pc = "idle"
  /\ resp = NoResp
  /\ pos = 0
  /\ chunks = <<>>
  /\ exc = ""
  /\ result = None
  /\ net = <<>>
  /\ arg_id = ""
  /\ sessions = 0
  /\ built_env = <<>>
  /\ peer = NoAgent
  /\ prev = NoRun
  /\ reg = NoCall
  /\ session_state \in {SessionState,
                        [SessionState EXCEPT !.is_processing = TRUE,
                                             !.processing_started_at = Num(0)]}
  /\ caller = "idle"
  /\ closes = 0
  /\ clock = 0

NextApp ==
  \/ Tick
  \/ TimeoutGuard
  \/ \E selected_agent_id \in AgentIds, refresh_connection \in BOOLEAN,
        outcome \in FewProbes :
       RenderSidebar(selected_agent_id, refresh_connection, outcome)
  \/ NoMessage
  \/ BeginMessage
  \/ caller = "message" /\ CreateAgent(session_state.selected_agent_id, <<>>)
  \/ caller = "message" /\ StreamCall(AppOutcomes)
  \/ caller = "message" /\ ReadLine
  \/ caller = "message" /\ Finish
  \/ Catch
  \/ Finally
  \/ Abandon
  \/ EndMessage

SpecApp == InitApp /\ [][NextApp]_vars

\* ================================================================= claims
\* the required variable of the adapter is set in the environment it was built from
RequiredPresent == agent # NoAgent /\ RequiredEnv(agent.name) \in DOMAIN env

BeginsWithWarning(c) == c.t = "str" /\ c.s # <<>> /\ c.s[1] = WarningMarker

\* C1: iterating stream_response to exhaustion never raises to the caller,
\* whatever the backend does: every fault is surfaced as a chunk.
C1_NeverRaises == op = "stream" => pc # "raised"

\* C2: with the required configuration absent, stream_response yields exactly
\* one chunk, which begins with the warning marker, then is exhausted, and no
\* HTTP request is issued.
C2_MisconfiguredWarns ==
  (op = "stream" /\ ~RequiredPresent) =>
    /\ net = <<>>
    /\ pc \in {"final", "done"}
    /\ Len(chunks) = 1
    /\ BeginsWithWarning(chunks[1])

C2_Witness ==
  /\ op = "stream" /\ ~RequiredPresent /\ pc = "done"
  /\ chunks = <<NotConfigured("N8N_WEBHOOK_URL")>>

\* C3 as stated: a configured adapter yields at least one chunk for every
\* reply, a streaming reply without any text included.
C3_AtLeastOneChunk ==
  (op = "stream" /\ RequiredPresent /\ pc = "done") => Len(chunks) >= 1

\* a line that carries nothing to emit: blank, the [DONE] sentinel, a
\* terminating event, an event the adapter does not know, or (n8n) a line
\* that is no data field
SilentLine(name, line) ==
  LET p == line.payload
      object == p.t = "jsontext" /\ p.of.t = "obj"
      event == IF "event" \in DOMAIN p.of.o THEN p.of.o["event"].s ELSE <<>>
  IN \/ p \in {Blank, Done}
     \/ name = "n8n" /\ ~line.prefix /\ ~IsExc(p)
     \/ /\ name = "dify" /\ object
        /\ event \notin {<<"message">>, <<"agent_message">>, <<"error">>}
     \/ /\ name = "flowise" /\ object /\ "event" \in DOMAIN p.of.o
        /\ event \notin {<<"token">>, <<"message">>, <<"error">>}

\* the reply is a successful one that the adapter reads line by line
StreamingReply ==
  /\ resp.kind = "response"
  /\ resp.status < 400
  /\ agent.name = "dify" \/ Contains(resp.ctype, "text/event-stream")

\* C3 amended: a configured adapter that runs to exhaustion yields no chunk
\* exactly when the reply is a successful streaming reply whose lines read
\* carry nothing to emit; in every other case it yields at least one chunk.
C3_ChunkUnlessSilentStream ==
  (op = "stream" /\ RequiredPresent /\ pc = "done") =>
    (chunks = <<>> <=>
       (StreamingReply /\ \A i \in 1..pos : SilentLine(agent.name, resp.lines[i])))

C3_Witness ==
  /\ op = "stream" /\ RequiredPresent /\ pc = "done" /\ chunks = <<>>
  /\ agent.name = "flowise"
  /\ resp.lines = <<Line(TRUE, Done), Line(TRUE, EndFrame)>>

\* C4: when the transport fails (no connection, timeout, HTTP error status,
\* a read that fails in the stream or in the body) the chunks are those
\* yielded before, then exactly one warning chunk, and nothing after it.
C4_TransportFailureWarns ==
  [][ /\ ( \/ /\ pc = "idle" /\ op' = "stream" /\ RequiredPresent
              /\ \/ resp'.kind = "exc"
                 \/ resp'.kind = "response" /\ resp'.status >= 400
                 \/ /\ resp'.kind = "response"
                    /\ IsExc(resp'.body)
                    /\ agent.name # "dify"
           \/ /\ pc = "iterating" /\ pos' = pos + 1
              /\ IsExc(resp.lines[pos'].payload) )
         => /\ pc' = "final"
            /\ Len(chunks') = Len(chunks) + 1
            /\ SubSeq(chunks', 1, Len(chunks)) = chunks
            /\ BeginsWithWarning(chunks'[Len(chunks')])
      /\ pc \in {"final", "done"} => chunks' = chunks /\ pc' = "done" ]_vars

C4_Witness ==
  /\ op = "stream" /\ pc = "done" /\ pos = 2
  /\ IsExc(resp.lines[2].payload)
  /\ Len(chunks) = 2
  /\ ~BeginsWithWarning(chunks[1])
  /\ chunks[2] = RequestFailed("ChunkedEncodingError")

\* C5: for a configured adapter and a probe answered with status s,
\* health_check returns configured = true, status_code = s and ok = (s < 500).
C5_ReachableBelow500 ==
  (op = "health" /\ RequiredPresent /\ resp.kind = "response") =>
    /\ pc = "done"
    /\ result.configured = TRUE
    /\ result.status_code = Num(resp.status)
    /\ result.ok = (resp.status < 500)

C5_Witness ==
  /\ op = "health" /\ RequiredPresent /\ resp.kind = "response" /\ resp.status = 401
  /\ result.ok = TRUE /\ result.status_code = Num(401)

\* C6: with the required configuration absent, health_check returns
\* configured = false, issues no HTTP request, and its message names the
\* missing field.
C6_MissingConfigShortCircuits ==
  (op = "health" /\ ~RequiredPresent) =>
    /\ pc = "done"
    /\ net = <<>>
    /\ result.configured = FALSE
    /\ Contains(result.message.s, RequiredEnv(agent.name))

C6_Witness ==
  /\ op = "health" /\ ~RequiredPresent /\ agent.name = "n8n"
  /\ net = <<>> /\ result.configured = FALSE

\* C7: every snapshot health_check returns with configured = false has
\* ok = false and status_code = null.
C7_UnconfiguredNotOk ==
  (op = "health" /\ pc = "done" /\ result.configured = FALSE) =>
    (result.ok = FALSE /\ result.status_code = None)

C7_Witness ==
  /\ op = "health" /\ pc = "done" /\ agent.name = "dify"
  /\ result.configured = FALSE /\ result.status_code = None

\* C8: for a configured adapter whose probe fails at the network level,
\* health_check does not raise and returns ok = false, status_code = null,
\* configured = true.
C8_NetworkFailureSnapshot ==
  (op = "health" /\ RequiredPresent /\ resp.kind = "exc") =>
    /\ pc = "done"
    /\ result.ok = FALSE
    /\ result.status_code = None
    /\ result.configured = TRUE

C8_Witness ==
  /\ op = "health" /\ RequiredPresent /\ resp = Failure("TooManyRedirects")
  /\ pc = "done" /\ result.ok = FALSE

\* the adapter's own credential header, when its API key is set
CredentialHeader(name, headers) ==
  CASE name = "n8n" ->
         "N8N_API_KEY" \in DOMAIN env =>
           ("Authorization" \in DOMAIN headers
              /\ headers["Authorization"] = <<"Bearer ">> \o env["N8N_API_KEY"])
    [] name = "dify" ->
         "DIFY_API_KEY" \in DOMAIN env =>
           ("Authorization" \in DOMAIN headers
              /\ headers["Authorization"] = <<"Bearer ">> \o env["DIFY_API_KEY"])
    [] name = "langflow" ->
         "LANGFLOW_API_KEY" \in DOMAIN env =>
           ("x-api-key" \in DOMAIN headers
              /\ headers["x-api-key"] = env["LANGFLOW_API_KEY"])
    [] name = "flowise" ->
         "FLOWISE_API_KEY" \in DOMAIN env =>
           ("Authorization" \in DOMAIN headers
              /\ headers["Authorization"] = <<"Bearer ">> \o env["FLOWISE_API_KEY"])

\* C9 as stated: every request carries access_token with exactly the token
\* given to create_agent, blanks around it included.
C9_ExactToken ==
  \A i \in 1..Len(net) :
    arg_token # <<>> =>
      /\ "access_token" \in DOMAIN net[i].headers
      /\ net[i].headers["access_token"] = arg_token

\* C9 amended: every request (chat and probe) carries access_token with the
\* given token stripped of leading and trailing blanks, and no such header
\* when nothing is left of it; the adapter's credential header goes with it.
C9_StrippedToken ==
  \A i \in 1..Len(net) :
    /\ Strip(arg_token) # <<>> =>
         /\ "access_token" \in DOMAIN net[i].headers
         /\ net[i].headers["access_token"] = Strip(arg_token)
    /\ Strip(arg_token) = <<>> => "access_token" \notin DOMAIN net[i].headers
    /\ CredentialHeader(agent.name, net[i].headers)

C9_Witness ==
  /\ op = "stream" /\ agent.name = "langflow" /\ "LANGFLOW_API_KEY" \in DOMAIN env
  /\ arg_token = <<" ", "a">>
  /\ Len(net) = 1 /\ net[1].headers["access_token"] = <<"a">>

\* C10: in the Dify adapter a message_end frame, once read, is the last line
\* read: the stream is exhausted and nothing more is yielded; a message frame
\* with answer "hi" followed by message_end yields exactly the chunk "hi".
C10_MessageEndStops ==
  (op = "stream" /\ agent.name = "dify" /\ pos >= 1) =>
    /\ \A i \in 1..pos :
         resp.lines[i].payload = MessageEndFrame => (i = pos /\ pc = "done")
    /\ ( /\ pc = "done" /\ Len(resp.lines) >= 2
         /\ resp.lines[1] = Line(TRUE, MessageFrame)
         /\ resp.lines[2] = Line(TRUE, MessageEndFrame) )
       => chunks = <<Str(<<"hi">>)>>

C10_Witness ==
  /\ op = "stream" /\ agent.name = "dify" /\ pc = "done" /\ pos = 2
  /\ resp.lines = <<Line(TRUE, MessageFrame), Line(TRUE, MessageEndFrame),
                    Line(TRUE, MessageFrame)>>
  /\ chunks = <<Str(<<"hi">>)>>

\* the chunk every adapter yields for the frame MessageFrame
MessageChunk(name) == IF name = "dify" THEN Str(<<"hi">>) ELSE Str(<<"txt">>)

\* C11: in every adapter's streaming path, reading a data line whose payload
\* is not JSON appends that raw payload as a chunk and leaves the generator
\* iterating; a message frame read right after such a line still appends its
\* own chunk.
C11_RawPayloadYielded ==
  [][(op = "stream" /\ pc = "iterating" /\ pos < Len(resp.lines)) =>
       LET line == resp.lines[pos + 1]
       IN /\ line = Line(TRUE, GarbageFrame) =>
               (chunks' = Append(chunks, GarbageFrame) /\ pc' = "iterating")
          /\ ( /\ pos >= 1
               /\ resp.lines[pos] = Line(TRUE, GarbageFrame)
               /\ line = Line(TRUE, MessageFrame) )
             => chunks' = Append(chunks, MessageChunk(agent.name))]_vars

C11_Witness ==
  /\ op = "stream" /\ agent.name = "n8n" /\ pc = "done" /\ pos = 2
  /\ resp.lines = <<Line(TRUE, GarbageFrame), Line(TRUE, MessageFrame)>>
  /\ chunks = <<GarbageFrame, Str(<<"txt">>)>>

\* the chunk of a raw-text frame or a message frame
FrameChunk(name, line) ==
  IF line.payload = GarbageFrame THEN GarbageFrame ELSE MessageChunk(name)

\* C12: chunks come in the order of the frames that produced them: as long as
\* the lines read are raw-text and message frames, the chunks are exactly the
\* chunks of the lines read so far, in line order; and every step that reads
\* a line keeps the chunks yielded before it as a prefix and adds at most one
\* chunk at the end.
C12_FrameOrder ==
  /\ []( ( /\ op = "stream"
           /\ pc = "iterating" \/ pos >= 1
           /\ \A i \in 1..pos :
                resp.lines[i] \in {Line(TRUE, GarbageFrame), Line(TRUE, MessageFrame)} )
         => chunks = [i \in 1..pos |-> FrameChunk(agent.name, resp.lines[i])] )
  /\ [][(pc = "iterating" /\ pos' = pos + 1) =>
          /\ Len(chunks') \in {Len(chunks), Len(chunks) + 1}
          /\ SubSeq(chunks', 1, Len(chunks)) = chunks]_vars

C12_Witness ==
  /\ op = "stream" /\ agent.name = "flowise" /\ pc = "iterating" /\ pos = 2
  /\ resp.lines[1] = Line(TRUE, MessageFrame)
  /\ resp.lines[2] = Line(TRUE, GarbageFrame)
  /\ chunks = <<Str(<<"txt">>), GarbageFrame>>

\* C13: once a [DONE] sentinel line has been read, reading a further frame
\* yields no chunk.
C13_DoneEndsStream ==
  [][( /\ op = "stream" /\ pc = "iterating" /\ pos < Len(resp.lines)
       /\ ~IsExc(resp.lines[pos + 1].payload)
       /\ \E i \in 1..pos : resp.lines[i] = Line(TRUE, Done) )
     => chunks' = chunks]_vars

\* the warning chunk of the frame ErrorFrame
ErrorChunk(name) ==
  Str(<<"\n", WarningMarker, " ">> \o (IF name = "dify" THEN <<"boom">> ELSE <<"bad">>))

\* C14: in the Dify and Flowise adapters, reading an error frame appends
\* exactly one warning chunk carrying the frame's message, keeps the chunks
\* yielded before it, and ends the stream: the error frame, once read, stays
\* the last line read and the warning stays the last chunk.
C14_ErrorEventEnds ==
  /\ [][( /\ op = "stream" /\ pc = "iterating" /\ pos < Len(resp.lines)
          /\ agent.name \in {"dify", "flowise"}
          /\ resp.lines[pos + 1] = Line(TRUE, ErrorFrame) )
        => (chunks' = Append(chunks, ErrorChunk(agent.name)) /\ pc' = "final")]_vars
  /\ []( ( /\ op = "stream" /\ agent.name \in {"dify", "flowise"}
           /\ \E i \in 1..pos : resp.lines[i] = Line(TRUE, ErrorFrame) )
         => /\ resp.lines[pos] = Line(TRUE, ErrorFrame)
            /\ pc \in {"final", "done"}
            /\ chunks # <<>> /\ chunks[Len(chunks)] = ErrorChunk(agent.name) )

C14_Witness ==
  /\ op = "stream" /\ agent.name = "flowise" /\ pc = "done" /\ pos = 2
  /\ resp.lines = <<Line(TRUE, MessageFrame), Line(TRUE, ErrorFrame),
                    Line(TRUE, MessageFrame)>>
  /\ chunks = <<Str(<<"txt">>), ErrorChunk("flowise")>>

\* C16: create_agent with an id that is not registered raises an error,
\* returns no adapter instance and makes no transport session.
C16_UnknownIdFails ==
  (op = "create" /\ arg_id \notin AgentIds) =>
    /\ pc = "raised" /\ exc = "ValueError"
    /\ agent = NoAgent
    /\ sessions = 0

C16_Witness ==
  /\ op = "create" /\ arg_id = "other" /\ arg_token = <<"a">>
  /\ pc = "raised" /\ agent = NoAgent

\* C19: one invocation of stream_response or health_check issues at most one
\* HTTP request, and exactly one when the backend fails or answers: a failed
\* request is not sent again.
C19_AtMostOneRequest ==
  /\ Len(net) <= 1
  /\ (op \in {"stream", "health"} /\ resp # NoResp) => Len(net) = 1

C19_Witness ==
  /\ op = "health" /\ resp = Failure("Timeout") /\ Len(net) = 1
  /\ pc = "done" /\ result.configured

\* C15: a second stream_response on the same instance, answered by the same
\* backend reply as the first, sends the same request and ends the same way
\* with the same chunks as the first run did on the fresh instance.
C15_SameReplySameChunks ==
  ( /\ prev # NoRun /\ op = "stream" /\ pc \in {"done", "raised"}
    /\ resp = prev.resp )
  => /\ chunks = prev.chunks
     /\ pc = prev.pc
     /\ exc = prev.exc
     /\ net = prev.net

C15_Witness ==
  /\ prev # NoRun /\ op = "stream" /\ pc = "done" /\ agent.name = "flowise"
  /\ resp = prev.resp /\ resp.kind = "response"
  /\ resp.lines = <<Line(TRUE, MessageFrame)>>
  /\ chunks = <<Str(<<"txt">>)>> /\ prev.chunks = chunks

\* C17: a create_agent call with a registered id builds an instance named by
\* the requested id, with an open transport session made for it; an
\* instance's name never changes afterwards; get_connection_info,
\* health_check and stream_response change no field of the instance and
\* close only its session; and a step that changes one instance leaves the
\* other instance, and a step on the second instance leaves the first
\* instance's call, exactly as they were.
C17_OwnIdentityAndSession ==
  [][ /\ (agent = NoAgent /\ agent' # NoAgent) =>
           /\ agent'.name = arg_id' /\ agent'.session = "open"
           /\ sessions' = sessions + 1
      /\ (peer = NoAgent /\ peer' # NoAgent) =>
           /\ peer'.name = arg_id' /\ peer'.session = "open"
           /\ sessions' = sessions + 1
      /\ agent # NoAgent => (agent' # NoAgent /\ agent'.name = agent.name)
      /\ peer # NoAgent => (peer' # NoAgent /\ peer'.name = peer.name)
      /\ (agent # NoAgent /\ agent' # agent) =>
           (op' = "close" /\ agent' = [agent EXCEPT !.session = "closed"])
      /\ agent' # agent => peer' = peer
      /\ peer' # peer =>
           UNCHANGED <<agent, op, pc, resp, pos, chunks, exc, result, net>> ]_vars

C17_Witness ==
  /\ agent # NoAgent /\ peer # NoAgent
  /\ agent.name = "dify" /\ peer.name = "dify"
  /\ op = "close" /\ agent.session = "closed" /\ peer.session = "open"
  /\ sessions = 2

\* C18: close() called after a stream_response that ran to exhaustion, or on
\* an instance whose required configuration is missing after its
\* stream_response or health_check returned the configuration error, raises
\* nothing and leaves the session closed.
C18_CloseRaisesNothing ==
  [][( /\ op' = "close" /\ op # "close"
       /\ \/ op = "stream" /\ pc = "done"
          \/ op \in {"stream", "health"} /\ pc = "done" /\ RequiredField(agent) = <<>> )
     => (pc' = "done" /\ exc' = "" /\ agent'.session = "closed")]_vars

C18_Witness ==
  /\ op = "close" /\ agent.session = "closed" /\ pc = "done" /\ exc = ""
  /\ RequiredField(agent) = <<>>
  /\ chunks = <<NotConfigured(RequiredEnv(agent.name))>>

\* C20: whatever the environment holds when an operation runs, the instance
\* has the fields built from the environment of its construction, and
\* get_connection_info, health_check and stream_response answer from that
\* environment: the API key flag, the configured flag, whether a request is
\* sent at all, and the n8n endpoint and request URL.
C20_ConfigFixedAtConstruction ==
  agent # NoAgent =>
    /\ agent = Construct(arg_id, built_env, arg_token)
    /\ op = "info" =>
         /\ result.platform = arg_id
         /\ result.has_api_key = (KeyEnv(arg_id) \in DOMAIN built_env)
         /\ arg_id = "n8n" =>
              result.endpoint = IF "N8N_WEBHOOK_URL" \in DOMAIN built_env
                                THEN Str(RStripSlash(built_env["N8N_WEBHOOK_URL"]))
                                ELSE None
    /\ op = "health" =>
         result.configured = (RequiredEnv(arg_id) \in DOMAIN built_env)
    /\ op = "stream" =>
         /\ (net = <<>>) = (RequiredEnv(arg_id) \notin DOMAIN built_env)
         /\ (net # <<>> /\ arg_id = "n8n") =>
              net[1].url = RStripSlash(built_env["N8N_WEBHOOK_URL"])

C20_Witness ==
  /\ op = "info" /\ arg_id = "dify"
  /\ "DIFY_API_KEY" \in DOMAIN built_env /\ "DIFY_API_KEY" \notin DOMAIN env
  /\ result.has_api_key

\* C21: list_available_agents returns the descriptors of n8n, dify, langflow
\* and flowise, in this order, whenever it is called: before or after
\* create_agent, health_check, stream_response and close.
C21_RegistrationOrder ==
  reg.fn = "list_available_agents" =>
    /\ [i \in 1..Len(reg.value) |-> reg.value[i].id]
         = <<"n8n", "dify", "langflow", "flowise">>
    /\ \A i \in 1..Len(reg.value) : reg.value[i].label = AgentRegistry[i].label

C21_Witness ==
  /\ reg.fn = "list_available_agents" /\ reg.value[1].id = "n8n"
  /\ op = "close" /\ agent.session = "closed" /\ prev # NoRun
  /\ peer # NoAgent /\ peer.session = "closed"

\* C22: get_agent_env_config with an id that is not registered raises nothing
\* and returns url_env "" and has_api_key false, whatever variables the
\* environment holds.
C22_UnknownIdEmptyConfig ==
  (reg.fn = "get_agent_env_config" /\ reg.agent_id \notin AgentIds) =>
    reg.value = [url_env |-> "", has_api_key |-> FALSE]

C22_Witness ==
  /\ reg.fn = "get_agent_env_config" /\ reg.agent_id = "other"
  /\ ~reg.value.has_api_key
  /\ DOMAIN env = {"N8N_API_KEY", "DIFY_API_KEY"}

\* C24: when the n8n adapter gets a JSON object reply that has an output, text
\* or message field in one piece, the chunk it yields is the chunk its event
\* loop yields for an event whose data is the same object.
C24_SamePriority ==
  ( /\ op = "stream" /\ agent.name = "n8n" /\ pc \in {"final", "done"}
    /\ resp.kind = "response" /\ ~StreamsLines("n8n", resp)
    /\ Contains(resp.ctype, "application/json")
    /\ resp.body.t = "jsontext" /\ resp.body.of.t = "obj"
    /\ DOMAIN resp.body.of.o \cap {"output", "text", "message"} # {} )
  => chunks = <<N8nEvent(Line(TRUE, resp.body)).chunk>>

\* the field of a request body that is to carry the session identifier
SessionField(name, body) ==
  CASE name = "n8n" -> body.sessionId
    [] name = "dify" -> body.conversation_id
    [] name = "langflow" -> body.session_id
    [] name = "flowise" -> body.sessionId

\* C27: the request body stream_response sends carries the session
\* identifier it was called with.
C27_SessionIdSent ==
  (op = "stream" /\ net # <<>>) =>
    \E session_id \in SessionIds : SessionField(agent.name, net[1].json) = session_id

\* C23: in the caller every adapter made is closed once: at any moment the
\* adapters made are one more than the close() calls exactly while the
\* response generator holds an adapter, which is then still open; when the
\* generator lets go of its adapter (stream exhausted, fault caught, or
\* iteration abandoned) one close() call is made in that step; a close()
\* call is made in no other step but the snapshot's, which makes and closes
\* its own adapter; and outside the handling of a message nothing is held.
C23_ClosedExactlyOnce ==
  /\ []( /\ sessions - closes = (IF agent # NoAgent THEN 1 ELSE 0)
         /\ agent # NoAgent => agent.session = "open"
         /\ caller # "message" => agent = NoAgent )
  /\ [][ /\ closes' \in {closes, closes + 1}
         /\ (agent # NoAgent /\ agent' = NoAgent) => closes' = closes + 1
         /\ closes' = closes + 1 =>
              \/ agent # NoAgent /\ agent' = NoAgent
              \/ sessions' = sessions + 1 ]_vars

C23_Witness ==
  /\ op = "abandoned" /\ caller = "after" /\ agent = NoAgent
  /\ sessions = 2 /\ closes = 2
  /\ chunks = <<Str(<<"txt">>)>>

\* C25: a sidebar run probes anew exactly when the refresh button was
\* pressed, the chosen platform is not the one checked last, or the cache has
\* no entry for it: then one adapter is made and closed, the new snapshot is
\* returned and stored under the platform's id, and a request is sent if the
\* platform is configured; otherwise the cached snapshot is returned, the
\* cache is left as it was, no adapter is made and no request is sent.
C25_CacheInvalidation ==
  [][(caller = "guard" /\ caller' = "body") =>
       LET id == session_state'.selected_agent_id
           cache == session_state.agent_connection_cache
           probe == \/ op' = "refresh"
                    \/ session_state._last_checked_agent_id # id
                    \/ id \notin DOMAIN cache
       IN /\ probe =>
               /\ sessions' = sessions + 1 /\ closes' = closes + 1
               /\ session_state'.agent_connection_cache[id] = result'
               /\ result'.health.platform = id
               /\ (net' # <<>>) = result'.health.configured
          /\ ~probe =>
               /\ sessions' = sessions /\ closes' = closes
               /\ net' = <<>>
               /\ result' = cache[id]
               /\ session_state'.agent_connection_cache = cache
          /\ session_state'._last_checked_agent_id = id]_vars

C25_Witness ==
  /\ caller = "body" /\ op = "snapshot"
  /\ sessions = 1 /\ closes = 1 /\ net = <<>>
  /\ result.health.configured /\ result.health.platform = "n8n"
  /\ session_state._last_checked_agent_id = "n8n"
  /\ clock = 1

\* C26: while a message is handled the flag is set, and the step that ends
\* the handling, after a finished, failed or abandoned stream, leaves
\* is_processing false and processing_started_at None; and a run that
\* starts with the flag set more than PROCESSING_TIMEOUT_SECONDS seconds
\* after processing_started_at clears both.
C26_ProcessingFlagCleared ==
  /\ [](caller \in {"message", "after"} =>
          (session_state.is_processing /\ session_state.processing_started_at # None))
  /\ [][(caller = "after" /\ caller' = "idle") =>
          ( /\ ~session_state'.is_processing
            /\ session_state'.processing_started_at = None )]_vars
  /\ [][( /\ caller = "idle" /\ caller' = "guard"
          /\ session_state.is_processing
          /\ session_state.processing_started_at # None
          /\ clock - session_state.processing_started_at.n > PROCESSING_TIMEOUT_SECONDS )
        => ( /\ ~session_state'.is_processing
             /\ session_state'.processing_started_at = None )]_vars

C26_Witness ==
  /\ caller = "idle" /\ op = "abandoned"
  /\ ~session_state.is_processing /\ session_state.processing_started_at = None
  /\ clock = PROCESSING_TIMEOUT_SECONDS + 1 /\ sessions = 2

====
